---- MODULE Spec2Model ----
(***************************************************************************)
(* The to-do list of script.js: the TodoService (the collection of Todo    *)
(* records, its operations, id generation and the mirror of the collection *)
(* in localStorage), the DOMManipulator that renders the collection and    *)
(* handles the gestures, and a consumer of getTodos().                     *)
(*                                                                         *)
(* A string is a sequence of UTF-16 code units (32 is the space, 66 "B",   *)
(* 97 "a", 98 "b"); the empty string is <<>>.  A Todo is a record          *)
(* [id, title]; the collection is a sequence of Todos.                     *)
(***************************************************************************)
EXTENDS Integers, Sequences, FiniteSets, TLC

\* ------------------------------------------------------------------ bounds

\* addTodo is not offered once the collection holds MaxTodos entries.
MaxTodos == 3

\* addTodo is not offered once the generated id would exceed MaxId; ids given
\* to editTodo and deleteTodo range over 1..MaxId.
MaxId == 3

\* -------------------------------------------------------------- the inputs

\* The title arguments tried: "", " ", "B", "b", " a ".
Titles == { <<>>, <<32>>, <<66>>, <<98>>, <<32, 97, 32>> }

Ids == 1..MaxId

\* ---------------------------------------------------------------- strings

\* String.prototype.trim: leading and trailing white space removed.
RECURSIVE trimStart(_)
trimStart(s) ==
    IF s # <<>> /\ Head(s) = 32 THEN trimStart(Tail(s)) ELSE s

RECURSIVE trimEnd(_)
trimEnd(s) ==
    IF s # <<>> /\ s[Len(s)] = 32 THEN trimEnd(SubSeq(s, 1, Len(s) - 1)) ELSE s

trim(s) == trimEnd(trimStart(s))

\* String.prototype.toUpperCase on the code units a..z.
toUpperCase(s) ==
    [i \in 1..Len(s) |-> IF s[i] \in 97..122 THEN s[i] - 32 ELSE s[i]]

\* s1 > s2 on strings: the code units compared from the left, a proper
\* prefix being the smaller.
RECURSIVE Greater(_, _)
Greater(s1, s2) ==
    IF s1 = <<>> THEN FALSE
    ELSE IF s2 = <<>> THEN TRUE
    ELSE IF Head(s1) # Head(s2) THEN Head(s1) > Head(s2)
    ELSE Greater(Tail(s1), Tail(s2))

\* ------------------------------------------------------------------- Todo

\* new Todo(id, title) that keeps the title as given.
TodoUntrimmed(id, title) == [id |-> id, title |-> title]

\* new Todo(id, title)
Todo(id, title) == [id |-> id, title |-> trim(title)]

\* ---------------------------------------------------------------- storage

\* The key of the collection in localStorage.
TODOS == "TODOS"

\* JSON.stringify of a Todo array: one <<id, title>> entry per Todo, in order.
JSONstringify(ts) == [i \in 1..Len(ts) |-> <<ts[i].id, ts[i].title>>]

\* JSON.parse of such a text: plain {id, title} objects, in order.
JSONparse(text) == [i \in 1..Len(text) |-> [id |-> text[i][1], title |-> text[i][2]]]

\* The read of a key that is never written.
getItemOfOtherKey(ls) == JSONstringify(<<>>)

\* localStorage.getItem(TODOS) || "[]"
getItemOrEmpty(ls) == IF TODOS \in DOMAIN ls THEN ls[TODOS] ELSE JSONstringify(<<>>)

\* localStorage.setItem(TODOS, text)
setItem(ls, text) == [k \in (DOMAIN ls) \cup {TODOS} |-> IF k = TODOS THEN text ELSE ls[k]]

\* ------------------------------------------------------------------ state

VARIABLES
    todos,         \* TodoService._todos
    localStorage,  \* the browser's localStorage: a function on the keys set
    constructed,   \* the TodoService constructor has returned
    engine,        \* which Array.prototype.sort the browser has
    lastCall,      \* the last call of the service and how it ended
    usedIds,       \* every id a Todo of the collection has held so far
    creations,     \* the ids in the order in which their Todos were created
    returned,      \* the array a consumer got from getTodos(): for each entry
                   \* the position of its Todo object in _todos, 0 for an
                   \* object of the consumer's own
    _sortDir,      \* DOMManipulator._sortDir
    _todoList,     \* the rows of #todo-list: the id bound to the listeners
                   \* and the value of the input
    alerted,       \* the message of the alert of the last handler
    uncaught,      \* the error the last handler let escape
    pending        \* the row whose change event waits for its listener

serviceVars == <<todos, localStorage, constructed, engine, lastCall, usedIds>>

viewVars == <<_sortDir, _todoList, alerted, uncaught, pending>>

vars == <<serviceVars, creations, returned, viewVars>>

\* --------------------------------------------------------------- messages

NoError == "none"
DuplicateEmptyEntry == "There is empty element in todo list"
EmptyTitle == "You can not empty title."
NotFound == "There are no such todo with given id."

Call(op, id, title, direction, error) ==
    [op |-> op, id |-> id, title |-> title, direction |-> direction, error |-> error]

\* --------------------------------------------------------- initial states

\* What an earlier session may have left in localStorage.
PersistedCollections ==
    { <<>>,
      <<[id |-> 1, title |-> <<>>]>>,
      <<[id |-> 2, title |-> <<98>>], [id |-> 1, title |-> <<66>>]>> }

InitialStorages ==
    { <<>> } \cup { setItem(<<>>, JSONstringify(c)) : c \in PersistedCollections }

\* The seed list of the application.
ApplicationSeed == <<[id |-> 1, title |-> <<>>]>>

\* The seed lists: the default argument [] and the list of the application.
Seeds == { <<>>, <<[id |-> 1, title |-> <<>>]>> }

\* The two ways a sort treats elements its comparator does not order.
Engines == { "linearInsertion", "binaryInsertion" }

IdsOf(ts) == { ts[i].id : i \in 1..Len(ts) }

Init ==
    /\ todos = <<>>
    /\ localStorage \in InitialStorages
    /\ constructed = FALSE
    /\ engine \in Engines
    /\ lastCall = Call("none", 0, <<>>, TRUE, NoError)
    /\ usedIds = {}
    /\ creations = <<>>
    /\ returned = <<>>
    /\ _sortDir = FALSE
    /\ _todoList = <<>>
    /\ alerted = NoError
    /\ uncaught = NoError
    /\ pending = <<>>

\* ------------------------------------------------------------ TodoService

\* _init: the collection read from the storage.
_init(ls) == JSONparse(getItemOrEmpty(ls))

\* _commit: the collection written to the storage.
_commit(ls, ts) == setItem(ls, JSONstringify(ts))

\* new TodoService(seed) that never takes the seed.
constructorNeverSeeding(seed) ==
    /\ ~constructed
    /\ constructed' = TRUE
    /\ todos' = _init(localStorage)
    /\ UNCHANGED localStorage
    /\ lastCall' = Call("constructor", 0, <<>>, TRUE, NoError)
    /\ usedIds' = IdsOf(todos')
    /\ UNCHANGED engine

\* new TodoService(seed)
constructor(seed) ==
    /\ ~constructed
    /\ constructed' = TRUE
    /\ IF Len(_init(localStorage)) = 0
       THEN /\ todos' = seed
            /\ localStorage' = _commit(localStorage, seed)
       ELSE /\ todos' = _init(localStorage)
            /\ UNCHANGED localStorage
    /\ lastCall' = Call("constructor", 0, <<>>, TRUE, NoError)
    /\ usedIds' = IdsOf(todos')
    /\ UNCHANGED engine

Max(S) == CHOOSE m \in S : \A x \in S : x <= m

\* _generateId as the length plus one.
_generateIdByLength(ts) == Len(ts) + 1

\* _generateId as the smallest id no Todo of the collection has.
_generateIdFirstFree(ts) ==
    CHOOSE n \in 1..(Len(ts) + 1) :
        /\ n \notin IdsOf(ts)
        /\ \A m \in 1..(n - 1) : m \in IdsOf(ts)

\* _generateId: the largest id plus one, or 1 for the empty collection.
_generateId(ts) == IF Len(ts) # 0 THEN Max(IdsOf(ts)) + 1 ELSE 1

\* some((t) => !t.title): a Todo of the collection has the empty title.
someEmptyTitle(ts) == \E i \in 1..Len(ts) : ts[i].title = <<>>

\* addTodo that refuses only a new empty title.
addTodoRefusingEmptyOnly(title) ==
    /\ constructed
    /\ IF ~(someEmptyTitle(todos) /\ trim(title) = <<>>)
       THEN /\ Len(todos) < MaxTodos
            /\ _generateId(todos) <= MaxId
            /\ todos' = todos \o <<Todo(_generateId(todos), title)>>
            /\ localStorage' = _commit(localStorage, todos')
            /\ lastCall' = Call("addTodo", 0, title, TRUE, NoError)
            /\ usedIds' = usedIds \cup IdsOf(todos')
       ELSE /\ lastCall' = Call("addTodo", 0, title, TRUE, DuplicateEmptyEntry)
            /\ UNCHANGED <<todos, localStorage, usedIds>>
    /\ UNCHANGED <<constructed, engine>>

\* addTodo that puts the new Todo first.
addTodoPrepending(title) ==
    /\ constructed
    /\ IF ~someEmptyTitle(todos)
       THEN /\ Len(todos) < MaxTodos
            /\ _generateId(todos) <= MaxId
            /\ todos' = <<Todo(_generateId(todos), title)>> \o todos
            /\ localStorage' = _commit(localStorage, todos')
            /\ lastCall' = Call("addTodo", 0, title, TRUE, NoError)
            /\ usedIds' = usedIds \cup IdsOf(todos')
       ELSE /\ lastCall' = Call("addTodo", 0, title, TRUE, DuplicateEmptyEntry)
            /\ UNCHANGED <<todos, localStorage, usedIds>>
    /\ UNCHANGED <<constructed, engine>>

\* addTodo(title); the call that appends is offered within the bounds.
addTodo(title) ==
    /\ constructed
    /\ IF ~someEmptyTitle(todos)
       THEN /\ Len(todos) < MaxTodos
            /\ _generateId(todos) <= MaxId
            /\ todos' = todos \o <<Todo(_generateId(todos), title)>>
            /\ localStorage' = _commit(localStorage, todos')
            /\ lastCall' = Call("addTodo", 0, title, TRUE, NoError)
            /\ usedIds' = usedIds \cup IdsOf(todos')
       ELSE /\ lastCall' = Call("addTodo", 0, title, TRUE, DuplicateEmptyEntry)
            /\ UNCHANGED <<todos, localStorage, usedIds>>
    /\ UNCHANGED <<constructed, engine>>

\* findIndex((t) => t.id === id): the 0-based index of the first Todo with the
\* id, or -1.
findIndex(ts, id) ==
    IF \E i \in 1..Len(ts) : ts[i].id = id
    THEN (CHOOSE i \in 1..Len(ts) :
              /\ ts[i].id = id
              /\ \A j \in 1..(i - 1) : ts[j].id # id) - 1
    ELSE -1

\* _getIndex that answers the first position for an id it does not find.
_getIndexOrFirst(ts, id) == IF findIndex(ts, id) = -1 THEN 0 ELSE findIndex(ts, id)

\* _getIndex: the index of the Todo with the id; -1 stands for the throw.
_getIndex(ts, id) == findIndex(ts, id)

\* editTodo that stores the title as given.
editTodoUntrimmed(id, title) ==
    /\ constructed
    /\ IF title = <<>>
       THEN /\ lastCall' = Call("editTodo", id, title, TRUE, EmptyTitle)
            /\ UNCHANGED <<todos, localStorage>>
       ELSE IF _getIndex(todos, id) = -1
       THEN /\ lastCall' = Call("editTodo", id, title, TRUE, NotFound)
            /\ UNCHANGED <<todos, localStorage>>
       ELSE /\ todos' = [todos EXCEPT ![_getIndex(todos, id) + 1].title = title]
            /\ localStorage' = _commit(localStorage, todos')
            /\ lastCall' = Call("editTodo", id, title, TRUE, NoError)
    /\ UNCHANGED <<constructed, engine, usedIds>>

\* editTodo that tests the title after the lookup and the assignment.
editTodoTestingLate(id, title) ==
    /\ constructed
    /\ IF _getIndex(todos, id) = -1
       THEN /\ lastCall' = Call("editTodo", id, title, TRUE, NotFound)
            /\ UNCHANGED <<todos, localStorage>>
       ELSE /\ todos' = [todos EXCEPT ![_getIndex(todos, id) + 1].title = trim(title)]
            /\ IF title = <<>>
               THEN /\ lastCall' = Call("editTodo", id, title, TRUE, EmptyTitle)
                    /\ UNCHANGED localStorage
               ELSE /\ localStorage' = _commit(localStorage, todos')
                    /\ lastCall' = Call("editTodo", id, title, TRUE, NoError)
    /\ UNCHANGED <<constructed, engine, usedIds>>

\* editTodo that looks the id up before it tests the title.
editTodoLookingUpFirst(id, title) ==
    /\ constructed
    /\ IF _getIndex(todos, id) = -1
       THEN /\ lastCall' = Call("editTodo", id, title, TRUE, NotFound)
            /\ UNCHANGED <<todos, localStorage>>
       ELSE IF title = <<>>
       THEN /\ lastCall' = Call("editTodo", id, title, TRUE, EmptyTitle)
            /\ UNCHANGED <<todos, localStorage>>
       ELSE /\ todos' = [todos EXCEPT ![_getIndex(todos, id) + 1].title = trim(title)]
            /\ localStorage' = _commit(localStorage, todos')
            /\ lastCall' = Call("editTodo", id, title, TRUE, NoError)
    /\ UNCHANGED <<constructed, engine, usedIds>>

\* editTodo(id, title)
editTodo(id, title) ==
    /\ constructed
    /\ IF title = <<>>
       THEN /\ lastCall' = Call("editTodo", id, title, TRUE, EmptyTitle)
            /\ UNCHANGED <<todos, localStorage>>
       ELSE IF _getIndex(todos, id) = -1
       THEN /\ lastCall' = Call("editTodo", id, title, TRUE, NotFound)
            /\ UNCHANGED <<todos, localStorage>>
       ELSE /\ todos' = [todos EXCEPT ![_getIndex(todos, id) + 1].title = trim(title)]
            /\ localStorage' = _commit(localStorage, todos')
            /\ lastCall' = Call("editTodo", id, title, TRUE, NoError)
    /\ UNCHANGED <<constructed, engine, usedIds>>

\* deleteTodo that takes the id for a position of the collection.
deleteTodoByPosition(id) ==
    /\ constructed
    /\ todos' = IF id <= Len(todos)
                THEN SubSeq(todos, 1, id - 1) \o SubSeq(todos, id + 1, Len(todos))
                ELSE todos
    /\ localStorage' = _commit(localStorage, todos')
    /\ lastCall' = Call("deleteTodo", id, <<>>, TRUE, NoError)
    /\ UNCHANGED <<constructed, engine, usedIds>>

\* deleteTodo without the commit.
deleteTodoUncommitted(id) ==
    /\ constructed
    /\ todos' = SelectSeq(todos, LAMBDA t : t.id # id)
    /\ UNCHANGED localStorage
    /\ lastCall' = Call("deleteTodo", id, <<>>, TRUE, NoError)
    /\ UNCHANGED <<constructed, engine, usedIds>>

\* deleteTodo(id)
deleteTodo(id) ==
    /\ constructed
    /\ todos' = SelectSeq(todos, LAMBDA t : t.id # id)
    /\ localStorage' = _commit(localStorage, todos')
    /\ lastCall' = Call("deleteTodo", id, <<>>, TRUE, NoError)
    /\ UNCHANGED <<constructed, engine, usedIds>>

\* The comparator without the upper-casing.
compareFnCaseSensitive(t1, t2) == IF Greater(t1.title, t2.title) THEN 1 ELSE -1

\* The comparator of sortTodos: 1 when t1's upper-cased title is the greater,
\* -1 otherwise (also when the two are equal).
compareFn(t1, t2) ==
    IF Greater(toUpperCase(t1.title), toUpperCase(t2.title)) THEN 1 ELSE -1

\* A sort that asks compareFn(element, pivot) from the right end of the sorted
\* part and moves the pivot left while the answer is positive.
RECURSIVE insertLinear(_, _)
insertLinear(arr, pivot) ==
    IF arr # <<>> /\ compareFn(arr[Len(arr)], pivot) > 0
    THEN Append(insertLinear(SubSeq(arr, 1, Len(arr) - 1), pivot), arr[Len(arr)])
    ELSE Append(arr, pivot)

\* A sort that asks compareFn(pivot, element) in a binary search of the sorted
\* part and goes left when the answer is negative; left and right are 0-based.
RECURSIVE binarySearch(_, _, _, _)
binarySearch(arr, pivot, left, right) ==
    IF left < right
    THEN LET mid == left + ((right - left) \div 2)
         IN  IF compareFn(pivot, arr[mid + 1]) < 0
             THEN binarySearch(arr, pivot, left, mid)
             ELSE binarySearch(arr, pivot, mid + 1, right)
    ELSE left

insertBinary(arr, pivot) ==
    LET at == binarySearch(arr, pivot, 0, Len(arr))
    IN  SubSeq(arr, 1, at) \o <<pivot>> \o SubSeq(arr, at + 1, Len(arr))

RECURSIVE insertionSort(_, _, _)
insertionSort(done, rest, eng) ==
    IF rest = <<>> THEN done
    ELSE insertionSort(
             IF eng = "binaryInsertion"
             THEN insertBinary(done, Head(rest))
             ELSE insertLinear(done, Head(rest)),
             Tail(rest), eng)

\* Array.prototype.sort(compareFn) of the engine
sort(arr, eng) == insertionSort(<<>>, arr, eng)

\* Array.prototype.reverse
reverse(arr) == [i \in 1..Len(arr) |-> arr[Len(arr) + 1 - i]]

\* The local todos of sortTodos before the reversal: the Todos with a title,
\* sorted by the engine.
sortedTodos(ts, eng) == sort(SelectSeq(ts, LAMBDA t : t.title # <<>>), eng)

\* sortTodos(direction)
sortTodos(direction) ==
    /\ constructed
    /\ todos' = IF ~direction
                THEN reverse(sortedTodos(todos, engine))
                ELSE sortedTodos(todos, engine)
    /\ localStorage' = _commit(localStorage, todos')
    /\ lastCall' = Call("sortTodos", 0, <<>>, direction, NoError)
    /\ UNCHANGED <<constructed, engine, usedIds>>

\* getTodos(): a new array of the Todo objects of the collection.
getTodos(ts) == [i \in 1..Len(ts) |-> ts[i]]

\* The page loaded again: new TodoService(seed) over the same localStorage.
reload(seed) ==
    /\ constructed
    /\ IF Len(_init(localStorage)) = 0
       THEN /\ todos' = seed
            /\ localStorage' = _commit(localStorage, seed)
       ELSE /\ todos' = _init(localStorage)
            /\ UNCHANGED localStorage
    /\ lastCall' = Call("reload", 0, <<>>, TRUE, NoError)
    /\ usedIds' = usedIds \cup IdsOf(todos')
    /\ UNCHANGED <<constructed, engine>>

\* The order of creation after a step of the service: a new store starts with
\* its collection in order; an id that appears in the collection goes last.
Born ==
    creations' =
        IF lastCall'.op \in {"constructor", "reload"}
        THEN [i \in 1..Len(todos') |-> todos'[i].id]
        ELSE IF IdsOf(todos') \subseteq IdsOf(todos)
        THEN creations
        ELSE LET new == IdsOf(todos') \ IdsOf(todos)
             IN  Append(SelectSeq(creations, LAMBDA c : c \notin new),
                        CHOOSE n \in new : TRUE)

\* A call of the service from outside the DOMManipulator.
Direct == UNCHANGED <<creations, returned, viewVars>>

Next ==
    \/ \E seed \in Seeds : constructor(seed) /\ Direct
    \/ \E title \in Titles : addTodo(title) /\ Direct
    \/ \E id \in Ids, title \in Titles : editTodo(id, title) /\ Direct
    \/ \E id \in Ids : deleteTodo(id) /\ Direct
    \/ \E direction \in BOOLEAN : sortTodos(direction) /\ Direct

Spec == Init /\ [][Next]_vars

\* The calls of the service and the page loaded again at any time.
NextReload ==
    \/ Next
    \/ \E seed \in Seeds : reload(seed) /\ Direct

SpecReload == Init /\ [][NextReload]_vars

\* The calls of the service other than sortTodos, the order of creation kept.
NextNoSort ==
    \/ \E seed \in Seeds : constructor(seed) /\ Born /\ UNCHANGED <<returned, viewVars>>
    \/ \E title \in Titles : addTodo(title) /\ Born /\ UNCHANGED <<returned, viewVars>>
    \/ \E id \in Ids, title \in Titles :
           editTodo(id, title) /\ Born /\ UNCHANGED <<returned, viewVars>>
    \/ \E id \in Ids : deleteTodo(id) /\ Born /\ UNCHANGED <<returned, viewVars>>

SpecNoSort == Init /\ [][NextNoSort]_vars

\* --------------------------------------------------------- DOMManipulator

\* displayTodos: the list rebuilt from getTodos() after the call of the
\* service, one row per Todo, the input's value its title.
displayTodos ==
    _todoList' = [i \in 1..Len(getTodos(todos')) |->
                     [id |-> getTodos(todos')[i].id,
                      value |-> getTodos(todos')[i].title]]

\* _showError that only alerts.
_showErrorWithoutDisplay(message) ==
    /\ alerted' = message
    /\ UNCHANGED _todoList

\* _showError(message)
_showError(message) ==
    /\ alerted' = message
    /\ displayTodos

\* DOMManipulator._init, once the elements are found.
DOM_init ==
    /\ _sortDir' = TRUE
    /\ displayTodos
    /\ UNCHANGED <<alerted, uncaught, pending>>

\* new DOMManipulator(new TodoService(seed))
manipulator(seed) ==
    /\ constructor(seed)
    /\ DOM_init
    /\ UNCHANGED <<creations, returned>>

\* The user changes the input of row i; its change event is dispatched.
change(i, value) ==
    /\ constructed
    /\ pending = <<>>
    /\ i \in 1..Len(_todoList)
    /\ value # _todoList[i].value
    /\ _todoList' = [_todoList EXCEPT ![i].value = value]
    /\ pending' = <<i>>
    /\ UNCHANGED <<serviceVars, creations, returned, _sortDir, alerted, uncaught>>

\* _handleEdit(t.id, e.target.value), the listener of the change event.
_handleEdit ==
    /\ pending # <<>>
    /\ editTodo(_todoList[pending[1]].id, _todoList[pending[1]].value)
    /\ IF lastCall'.error = NoError
       THEN /\ displayTodos
            /\ alerted' = NoError
       ELSE _showError(lastCall'.error)
    /\ uncaught' = NoError
    /\ pending' = <<>>
    /\ UNCHANGED <<creations, returned, _sortDir>>

\* _handleAdd, the listener of #add-button.
_handleAdd ==
    /\ pending = <<>>
    /\ addTodo(<<>>)
    /\ IF lastCall'.error = NoError
       THEN /\ _sortDir' = TRUE
            /\ displayTodos
            /\ alerted' = NoError
       ELSE /\ _showError(lastCall'.error)
            /\ UNCHANGED _sortDir
    /\ uncaught' = NoError
    /\ UNCHANGED <<creations, returned, pending>>

\* _handleDelete(t.id), the listener of the image of row i; it has no catch.
_handleDelete(i) ==
    /\ pending = <<>>
    /\ i \in 1..Len(_todoList)
    /\ deleteTodo(_todoList[i].id)
    /\ uncaught' = lastCall'.error
    /\ IF lastCall'.error = NoError THEN displayTodos ELSE UNCHANGED _todoList
    /\ alerted' = NoError
    /\ UNCHANGED <<creations, returned, _sortDir, pending>>

\* _handleSort, the listener of #sort-button; it has no catch.
_handleSort ==
    /\ pending = <<>>
    /\ sortTodos(_sortDir)
    /\ uncaught' = lastCall'.error
    /\ IF lastCall'.error = NoError
       THEN /\ _sortDir' = ~_sortDir
            /\ displayTodos
       ELSE UNCHANGED <<_sortDir, _todoList>>
    /\ alerted' = NoError
    /\ UNCHANGED <<creations, returned, pending>>

\* The page: the gestures of the user and their listeners.
NextView ==
    \/ manipulator(ApplicationSeed)
    \/ \E i \in 1..MaxTodos, value \in Titles : change(i, value)
    \/ _handleEdit
    \/ _handleAdd
    \/ \E i \in 1..MaxTodos : _handleDelete(i)
    \/ _handleSort

SpecView == Init /\ [][NextView]_vars

\* ------------------------------------------------- a consumer of getTodos

\* A consumer calls getTodos() and keeps the array: entry i is the Todo object
\* at position i of the collection.
consumerGets ==
    /\ constructed
    /\ returned' = [i \in 1..Len(getTodos(todos)) |-> i]
    /\ UNCHANGED <<serviceVars, creations, viewVars>>

\* The consumer's array is as getTodos() returned it.
Fresh == returned # <<>> /\ returned = [i \in 1..Len(todos) |-> i]

\* The titles the consumer writes: "" and "b".
ConsumerTitles == { <<>>, <<98>> }

\* The consumer changes the array it got: shift(), reverse(), or push() of an
\* object of its own.
consumerChangesArray ==
    /\ constructed
    /\ Fresh
    /\ \/ returned' = Tail(returned)
       \/ returned' = reverse(returned)
       \/ returned' = Append(returned, 0)
    /\ UNCHANGED <<serviceVars, creations, viewVars>>

\* The consumer assigns to the title of entry i of the array it got; the
\* entry is the object the collection holds, so the write shows there.
consumerWritesTitle(i, title) ==
    /\ constructed
    /\ Fresh
    /\ i \in 1..Len(returned)
    /\ returned[i] # 0
    /\ todos' = [todos EXCEPT ![returned[i]].title = title]
    /\ UNCHANGED <<localStorage, constructed, engine, lastCall, usedIds>>
    /\ UNCHANGED <<creations, returned, viewVars>>

\* The consumer assigns to the id of entry i of the array it got.
consumerWritesId(i, id) ==
    /\ constructed
    /\ Fresh
    /\ i \in 1..Len(returned)
    /\ returned[i] # 0
    /\ todos' = [todos EXCEPT ![returned[i]].id = id]
    /\ UNCHANGED <<localStorage, constructed, engine, lastCall, usedIds>>
    /\ UNCHANGED <<creations, returned, viewVars>>

\* The consumer is followed up to its first write that shows in the store:
\* until then the collection is the one the storage holds.
Unspoiled == constructed => JSONparse(getItemOrEmpty(localStorage)) = todos

\* A call of the service by the consumer, who then lets go of its array.
Dropping == Unspoiled /\ returned' = <<>> /\ UNCHANGED <<creations, viewVars>>

NextConsumer ==
    \/ \E seed \in Seeds : constructor(seed) /\ Dropping
    \/ \E title \in Titles : addTodo(title) /\ Dropping
    \/ \E id \in Ids, title \in Titles : editTodo(id, title) /\ Dropping
    \/ \E id \in Ids : deleteTodo(id) /\ Dropping
    \/ \E direction \in BOOLEAN : sortTodos(direction) /\ Dropping
    \/ Unspoiled /\ consumerGets
    \/ Unspoiled /\ consumerChangesArray
    \/ \E i \in 1..MaxTodos, title \in ConsumerTitles :
           Unspoiled /\ consumerWritesTitle(i, title)
    \/ \E i \in 1..MaxTodos, id \in Ids : Unspoiled /\ consumerWritesId(i, id)

SpecConsumer == Init /\ [][NextConsumer]_vars

\* ----------------------------------------------------- words of the claims

\* The positions of the collection that hold the empty title.
EmptyTitled(ts) == { i \in 1..Len(ts) : ts[i].title = <<>> }

\* r is s without its leading and trailing white space.
IsTrimOf(r, s) ==
    \E a \in 0..Len(s) : \E b \in a..Len(s) :
        /\ r = SubSeq(s, a + 1, b)
        /\ \A i \in (1..a) \cup ((b + 1)..Len(s)) : s[i] = 32
        /\ r # <<>> => (r[1] # 32 /\ r[Len(r)] # 32)

\* The storage holds the collection ts: same ids and titles, same order.
Persisted(ls, ts) ==
    /\ TODOS \in DOMAIN ls
    /\ Len(ls[TODOS]) = Len(ts)
    /\ \A i \in 1..Len(ts) : ls[TODOS][i] = <<ts[i].id, ts[i].title>>

\* The step is a call of the operation op that has returned or thrown.
Returns(op) == lastCall'.op = op
Succeeds(op) == lastCall'.op = op /\ lastCall'.error = NoError

\* -------------------------------------------------------------------- C1

\* C1 (as claimed): in every reachable state the collection holds at most one
\* Todo whose stored title is the empty string.
C1_AtMostOneEmptyTitle == Cardinality(EmptyTitled(todos)) <= 1

\* -------------------------------------------------------------------- C2

\* C2: in every reachable state no two Todos of the collection have the
\* same id.
C2_IdsPairwiseDistinct ==
    \A i, j \in 1..Len(todos) : i # j => todos[i].id # todos[j].id

\* An addTodo has appended to a collection one of whose Todos had been removed.
C2_Witness ==
    /\ lastCall.op = "addTodo"
    /\ lastCall.error = NoError
    /\ Len(todos) >= 2
    /\ usedIds # IdsOf(todos)

\* -------------------------------------------------------------------- C3

\* C3 (as claimed): the id that addTodo assigns differs from every id that any
\* Todo has held at any earlier point, removed Todos included.
C3_NeverReusesAnId ==
    [][Succeeds("addTodo") => todos'[Len(todos')].id \notin usedIds]_vars

\* C3 (amended): the id that addTodo assigns differs from every id that any
\* Todo has held at an earlier point, except the ids that are larger than
\* every id in the collection at the time of the call.
C3_NeverReusesAnIdBelowTheMaximum ==
    [][Succeeds("addTodo") =>
          /\ todos'[Len(todos')].id \notin IdsOf(todos)
          /\ \A h \in usedIds :
                 (\E i \in 1..Len(todos) : h <= todos[i].id)
                     => todos'[Len(todos')].id # h]_vars

\* An addTodo has assigned an id while a smaller id, held earlier, is no
\* longer in the collection.
C3_Witness ==
    /\ lastCall.op = "addTodo"
    /\ lastCall.error = NoError
    /\ \E h \in usedIds \ IdsOf(todos) : h < todos[Len(todos)].id

\* -------------------------------------------------------------------- C4

\* C4: addTodo(title), called while some Todo has the empty title, fails with
\* the DuplicateEmptyEntry error for any title and leaves the collection and
\* the storage as they were; an addTodo() right after a successful addTodo()
\* fails.
C4_AddFailsWhileAnEmptyTitleExists ==
    [][Returns("addTodo") =>
          /\ EmptyTitled(todos) # {} =>
                 /\ lastCall'.error = DuplicateEmptyEntry
                 /\ todos' = todos
                 /\ localStorage' = localStorage
          /\ (/\ lastCall.op = "addTodo"
              /\ lastCall.error = NoError
              /\ lastCall.title = <<>>
              /\ lastCall'.title = <<>>) => lastCall'.error # NoError]_vars

\* An addTodo with a title that is not empty has been refused.
C4_Witness ==
    /\ lastCall.op = "addTodo"
    /\ lastCall.error = DuplicateEmptyEntry
    /\ lastCall.title = <<98>>
    /\ Len(todos) >= 2

\* -------------------------------------------------------------------- C5

\* C5: addTodo(title), called while no Todo has the empty title, leaves the
\* previous collection followed by one new Todo whose title is the argument
\* trimmed and whose id is 1 for the empty collection and otherwise the
\* largest id of the collection plus one.
C5_AddAppendsTheTrimmedTitle ==
    [][(Returns("addTodo") /\ EmptyTitled(todos) = {}) =>
          /\ lastCall'.error = NoError
          /\ Len(todos') = Len(todos) + 1
          /\ \A i \in 1..Len(todos) : todos'[i] = todos[i]
          /\ IsTrimOf(todos'[Len(todos')].title, lastCall'.title)
          /\ IF todos = <<>>
             THEN todos'[Len(todos')].id = 1
             ELSE /\ \A i \in 1..Len(todos) : todos[i].id < todos'[Len(todos')].id
                  /\ \E i \in 1..Len(todos) : todos[i].id + 1 = todos'[Len(todos')].id]_vars

\* addTodo(" a ") has appended to a collection that was not empty.
C5_Witness ==
    /\ lastCall.op = "addTodo"
    /\ lastCall.error = NoError
    /\ lastCall.title = <<32, 97, 32>>
    /\ Len(todos) >= 2

\* -------------------------------------------------------------------- C6

\* C6: editTodo(id, title) with an id of the collection and a title that is
\* not empty leaves the Todo with that id holding the trimmed title, the
\* collection of the same length with the same ids at the same positions and
\* every other title as it was, and the storage holding the updated
\* collection.
C6_EditReplacesOneTitle ==
    [][(/\ Returns("editTodo")
        /\ lastCall'.title # <<>>
        /\ lastCall'.id \in IdsOf(todos)) =>
          /\ lastCall'.error = NoError
          /\ Len(todos') = Len(todos)
          /\ \A i \in 1..Len(todos) :
                 /\ todos'[i].id = todos[i].id
                 /\ todos[i].id = lastCall'.id
                        => IsTrimOf(todos'[i].title, lastCall'.title)
                 /\ todos[i].id # lastCall'.id
                        => todos'[i].title = todos[i].title
          /\ Persisted(localStorage', todos')]_vars

\* editTodo(id, " a ") has changed a title in a collection of several Todos.
C6_Witness ==
    /\ lastCall.op = "editTodo"
    /\ lastCall.error = NoError
    /\ lastCall.title = <<32, 97, 32>>
    /\ Len(todos) >= 2
    /\ \E i \in 2..Len(todos) : todos[i].id = lastCall.id

\* -------------------------------------------------------------------- C7

\* C7: editTodo(id, title) with a title that is not empty and an id no Todo
\* has fails with the NotFound error and leaves the collection and the
\* storage as they were.
C7_EditOfMissingIdFails ==
    [][(/\ Returns("editTodo")
        /\ lastCall'.title # <<>>
        /\ lastCall'.id \notin IdsOf(todos)) =>
          /\ lastCall'.error = NotFound
          /\ todos' = todos
          /\ localStorage' = localStorage]_vars

\* An editTodo on a collection that is not empty has failed with NotFound.
C7_Witness ==
    /\ lastCall.op = "editTodo"
    /\ lastCall.error = NotFound
    /\ lastCall.id \notin IdsOf(todos)
    /\ todos # <<>>

\* -------------------------------------------------------------------- C8

\* C8: editTodo(id, "") with an id of the collection fails with the
\* EmptyTitle error and leaves the collection and the storage as they were.
C8_EditWithEmptyTitleFails ==
    [][(/\ Returns("editTodo")
        /\ lastCall'.title = <<>>
        /\ lastCall'.id \in IdsOf(todos)) =>
          /\ lastCall'.error = EmptyTitle
          /\ todos' = todos
          /\ localStorage' = localStorage]_vars

\* editTodo(id, "") has failed on a Todo that has a title.
C8_Witness ==
    /\ lastCall.op = "editTodo"
    /\ lastCall.error = EmptyTitle
    /\ \E i \in 1..Len(todos) : todos[i].id = lastCall.id /\ todos[i].title # <<>>

\* -------------------------------------------------------------------- C9

\* C9: deleteTodo(id) never fails; with the id present the collection
\* afterwards is the previous one without that one Todo, the others unchanged
\* and in the same order; with the id absent the collection is unchanged;
\* after the call the id is absent, so a second call changes nothing.
C9_DeleteRemovesExactlyThatTodo ==
    [][Returns("deleteTodo") =>
          /\ lastCall'.error = NoError
          /\ lastCall'.id \notin IdsOf(todos')
          /\ IF lastCall'.id \in IdsOf(todos)
             THEN \E k \in 1..Len(todos) :
                      /\ todos[k].id = lastCall'.id
                      /\ todos' = SubSeq(todos, 1, k - 1)
                                      \o SubSeq(todos, k + 1, Len(todos))
             ELSE todos' = todos]_vars

\* deleteTodo has removed a Todo and left several.
C9_Witness ==
    /\ lastCall.op = "deleteTodo"
    /\ lastCall.id \in usedIds \ IdsOf(todos)
    /\ Len(todos) >= 2

\* ------------------------------------------------------------------- C10

\* How often the Todo x occurs in ts.
Count(x, ts) == Cardinality({ i \in 1..Len(ts) : ts[i] = x })

\* r is s from its last entry to its first.
IsReverseOf(r, s) ==
    /\ Len(r) = Len(s)
    /\ \A i \in 1..Len(s) : r[i] = s[Len(s) + 1 - i]

\* C10: after sortTodos(ascending) the collection holds exactly the Todos of
\* the collection before that have a title (each as often as before, none
\* with the empty title); with ascending true the upper-cased titles do not
\* decrease from first to last; with ascending false the collection is the
\* result of sortTodos(true) on the same collection, reversed.
C10_SortKeepsTitledTodosInOrder ==
    [][Returns("sortTodos") =>
          /\ \A i \in 1..Len(todos') : todos'[i].title # <<>>
          /\ \A i \in 1..Len(todos') : Count(todos'[i], todos') = Count(todos'[i], todos)
          /\ \A i \in 1..Len(todos) :
                 todos[i].title # <<>> => Count(todos[i], todos') = Count(todos[i], todos)
          /\ lastCall'.direction =>
                 \A i, j \in 1..Len(todos') :
                     i < j => ~Greater(toUpperCase(todos'[i].title),
                                       toUpperCase(todos'[j].title))
          /\ ~lastCall'.direction =>
                 IsReverseOf(todos', sortedTodos(todos, engine))]_vars

\* sortTodos(false) has left three Todos, two of them with titles that differ
\* only in case, after a Todo was removed.
C10_Witness ==
    /\ lastCall.op = "sortTodos"
    /\ ~lastCall.direction
    /\ Len(todos) = 3
    /\ \E i, j \in 1..Len(todos) :
           /\ todos[i].title # todos[j].title
           /\ toUpperCase(todos[i].title) = toUpperCase(todos[j].title)

\* ------------------------------------------------------------------- C11

\* C11: once the store is constructed, after every call of the service,
\* succeeded or failed, the storage holds the collection of the store: same
\* ids and titles, same order.
C11_StorageMirrorsTheCollection == constructed => Persisted(localStorage, todos)

\* A call has failed on a collection of several Todos, after a removal.
C11_Witness ==
    /\ lastCall.error = NotFound
    /\ Len(todos) >= 2
    /\ usedIds # IdsOf(todos)
    /\ Persisted(localStorage, todos)

\* ------------------------------------------------------------------- C12

\* C12 (as claimed): in every reachable state, the empty collection included,
\* a new store over the same storage, given the seed of the application,
\* answers getTodos() as the old store does.
C12_ReloadReproducesTheCollection ==
    [][reload(ApplicationSeed) => getTodos(todos') = getTodos(todos)]_vars

\* C12 (amended): in every reachable state whose collection is not empty, a
\* new store over the same storage, given the seed of the application,
\* answers getTodos() as the old store does; when the collection is empty the
\* new store holds the seed list.
C12_ReloadReproducesANonEmptyCollection ==
    [][reload(ApplicationSeed) =>
          /\ todos # <<>> => getTodos(todos') = getTodos(todos)
          /\ todos = <<>> => getTodos(todos') = ApplicationSeed]_vars

\* The page was loaded again over a collection of several Todos that a sort
\* had reordered.
C12_Witness ==
    /\ lastCall.op = "reload"
    /\ Len(todos) >= 2
    /\ \E i \in 1..(Len(todos) - 1) : todos[i].id > todos[i + 1].id

\* ------------------------------------------------------------------- C14

\* C14: construction over a storage that holds a collection that is not empty
\* gives the store that collection, whatever the seed, and leaves the storage
\* as it was; over a storage that holds nothing or the empty collection it
\* gives the store the seed list, and the storage holds the seed list when
\* the constructor returns.
C14_ConstructionLoadsOrSeeds ==
    [][\A seed \in Seeds :
          (constructor(seed) \/ reload(seed)) =>
              IF TODOS \in DOMAIN localStorage /\ localStorage[TODOS] # <<>>
              THEN /\ Persisted(localStorage, todos')
                   /\ localStorage' = localStorage
              ELSE /\ todos' = seed
                   /\ Persisted(localStorage', seed)]_vars

\* The first construction has loaded a collection of two Todos.
C14_Witness ==
    /\ lastCall.op = "constructor"
    /\ Len(todos) = 2
    /\ todos # ApplicationSeed

\* ------------------------------------------------------------------- C13

\* C13 (as claimed): no change a consumer makes to a value returned by
\* getTodos(), to the array or to a Todo record in it, alters the collection
\* of the store or what getTodos() returns later.
C13_ConsumersHoldCopies ==
    [][(\/ consumerChangesArray
        \/ \E i \in 1..MaxTodos, title \in ConsumerTitles : consumerWritesTitle(i, title)
        \/ \E i \in 1..MaxTodos, id \in Ids : consumerWritesId(i, id))
          => getTodos(todos') = getTodos(todos)]_vars

\* ------------------------------------------------------------------- C15

\* C15 (as claimed): the sort direction starts at ascending-next, every
\* sort-gesture toggles it, and after every add-gesture, one whose addTodo
\* fails included, it is ascending-next.
C15_SortDirectionMachine ==
    [][/\ manipulator(ApplicationSeed) => _sortDir' = TRUE
       /\ _handleSort => _sortDir' = ~_sortDir
       /\ _handleAdd => _sortDir' = TRUE]_vars

\* ------------------------------------------------------------------- C16

\* C16: after every gesture handler has completed, the call of the store
\* succeeded or failed, the list shows the collection of the store, one row
\* per Todo in order, the row's value the Todo's title; no error of the store
\* has escaped the handler; a failed add or edit has alerted its message.
C16_ListShowsTheCollection ==
    (constructed /\ pending = <<>>) =>
        /\ Len(_todoList) = Len(todos)
        /\ \A i \in 1..Len(todos) :
               /\ _todoList[i].value = todos[i].title
               /\ _todoList[i].id = todos[i].id
        /\ uncaught = NoError
        /\ lastCall.error # NoError => alerted = lastCall.error

\* The listener of a change event has handled a refused edit of one of
\* several rows.
C16_Witness ==
    /\ lastCall.op = "editTodo"
    /\ lastCall.error = EmptyTitle
    /\ alerted = EmptyTitle
    /\ pending = <<>>
    /\ Len(_todoList) >= 2

\* ------------------------------------------------------------------- C17

\* The position of the id in the order of creation, 0 when it is not there.
CreatedAt(cs, id) ==
    IF \E k \in 1..Len(cs) : cs[k] = id
    THEN CHOOSE k \in 1..Len(cs) : cs[k] = id
    ELSE 0

\* C17: with no sortTodos call, after every call the Todos stand in the
\* order in which they were created (the seed or loaded entries first, in
\* their order, then the added ones in the order of their addTodo calls);
\* addTodo leaves the previous collection in front of the new Todo; editTodo
\* and deleteTodo leave the Todos that remain in their relative order.
C17_OrderIsInsertionOrder ==
    [][/\ \A i \in 1..Len(todos') : CreatedAt(creations', todos'[i].id) # 0
       /\ \A i, j \in 1..Len(todos') :
              i < j => CreatedAt(creations', todos'[i].id) < CreatedAt(creations', todos'[j].id)
       /\ Succeeds("addTodo") =>
              /\ Len(todos') = Len(todos) + 1
              /\ SubSeq(todos', 1, Len(todos)) = todos
       /\ (Returns("editTodo") \/ Returns("deleteTodo")) =>
              \A i, j \in 1..Len(todos') :
                  i < j => \E k, l \in 1..Len(todos) :
                               /\ k < l
                               /\ todos[k].id = todos'[i].id
                               /\ todos[l].id = todos'[j].id]_vars

\* An edit has left several Todos, loaded and added ones, all of them
\* created after a Todo that has since been removed.
C17_Witness ==
    /\ lastCall.op = "editTodo"
    /\ lastCall.error = NoError
    /\ Len(todos) >= 2
    /\ Len(creations) > Len(todos)
    /\ creations[1] \notin IdsOf(todos)
    /\ creations[1] > creations[2]

\* ------------------------------------------------------------------- C18

\* C18: editTodo(id, "") with an id no Todo has fails with the EmptyTitle
\* error, not with NotFound, and leaves the collection and the storage as
\* they were.
C18_EmptyTitleIsTestedBeforeTheLookup ==
    [][(/\ Returns("editTodo")
        /\ lastCall'.title = <<>>
        /\ lastCall'.id \notin IdsOf(todos)) =>
          /\ lastCall'.error = EmptyTitle
          /\ todos' = todos
          /\ localStorage' = localStorage]_vars

\* editTodo(id, "") has failed for an id that a collection of several Todos
\* does not hold.
C18_Witness ==
    /\ lastCall.op = "editTodo"
    /\ lastCall.title = <<>>
    /\ lastCall.error = EmptyTitle
    /\ lastCall.id \notin IdsOf(todos)
    /\ Len(todos) >= 2

====
